---- MODULE Spec2Model ----
(***************************************************************************)
(* The memory game of src/server.ts as a state machine: the React state of *)
(* App, the catalog backends, the timers scheduled by handleCardClick and   *)
(* the initGame calls that wait for their catalog fetch.                    *)
(*                                                                         *)
(* Every event handler runs to completion and is followed by a render, so  *)
(* a handler is one atomic action and the values its closures capture are  *)
(* the state at the moment it runs.  setTimeout callbacks and the          *)
(* continuation of an awaited fetch are separate actions: they carry the   *)
(* values their closure captured and read everything else through the      *)
(* functional updaters, as the code does.                                  *)
(***************************************************************************)
EXTENDS Integers, Sequences, FiniteSets, TLC

(***************************************************************************)
(* Bounds of the exploration.                                              *)
(***************************************************************************)
\* mismatched pairs explored in one session (moves - matches)
MaxMisses == 2
\* the outcomes of the random sorts that are explored: the rotations by these
Rotations == {0, 1}
\* initGame calls waiting for their fetch at one time
MaxPendingInits == 1
\* Outside a plain session (see Plain) only the cards of BusyCards are
\* clicked and at most MaxBusyMoves pairs are flipped; a game
\* in progress is restarted or left only from such a position.  No new game
\* is started from a disturbed session, a deck is installed over pending
\* timers only in a session that is not disturbed yet and, once the
\* administrator has logged in, only by a call that changes the mode, and a
\* further
\* initGame call joins a waiting one only while no selection and no timer is
\* pending.
BusyCards == 0..2
MaxBusyMoves == 1
\* documents ever created in the Appwrite collection
MaxDocs == 2
\* what the uploads of the catalog exploration are drawn from
CatalogIds == {1, 2}
Images == {1, 2}

(***************************************************************************)
(* Program constants.                                                      *)
(***************************************************************************)
PairCount == 6
DefaultPoints == 10
HighlightDelay == 600
MatchDelay == 2000
NoMatchDelay == 1000

(***************************************************************************)
(* Catalog backends.  A row of the local table has no points and no author *)
(* column; an Appwrite document has its own unique document id, so two     *)
(* documents may carry the same cardId.  points = 0 and author = "" stand   *)
(* for a missing (falsy) value, appwriteId = 0 for a card without one.  A   *)
(* deleted document stays in the sequence, marked, so that its id is never  *)
(* given again.  Both sequences are kept in listing order, newest first.    *)
(***************************************************************************)
NoPoints == 0
NoAuthor == ""
NoDocument == 0

\* a row as GET /api/cards returns it
NewLocalRow(id, image) ==
  [id |-> id, image |-> image, points |-> NoPoints, author |-> NoAuthor,
   appwriteId |-> NoDocument]

LocalRow(i) == NewLocalRow(i, i)

NewAppwriteDoc(docId, id, image, points, author) ==
  [docId |-> docId, cardId |-> id, image |-> image, points |-> points,
   author |-> author, deleted |-> FALSE]

AppwriteDoc(i) ==
  NewAppwriteDoc(i, IF i = 7 THEN 2 ELSE i, i,
                 IF i = 1 THEN 20 ELSE IF i = 3 THEN NoPoints ELSE 10, "Admin")

LocalCatalog(n) == [i \in 1..n |-> LocalRow(i)]
AppwriteCollection(n) == [i \in 1..n |-> AppwriteDoc(i)]

IsLive(doc) == ~doc.deleted

\* databases.listDocuments
ListDocuments(docs) == SelectSeq(docs, IsLive)

\* appwriteService.getCards: documents mapped to CardData
GetCards(docs) ==
  LET live == ListDocuments(docs)
  IN [i \in 1..Len(live) |->
        [id |-> live[i].cardId,
         image |-> live[i].image,
         appwriteId |-> live[i].docId,
         points |-> IF live[i].points = NoPoints THEN DefaultPoints ELSE live[i].points,
         author |-> IF live[i].author = NoAuthor THEN "Admin" ELSE live[i].author]]

(***************************************************************************)
(* Deck builder (initGame, lines 726-757).                                 *)
(***************************************************************************)
\* one outcome of  [...s].sort(() => Math.random() - 0.5) : rotation by r
Shuffle(s, r) ==
  IF Len(s) = 0 THEN s
  ELSE [i \in 1..Len(s) |-> s[((i - 1 + r) % Len(s)) + 1]]

Slice(s, n) == SubSeq(s, 1, IF Len(s) < n THEN Len(s) ELSE n)

\* a piece pushed face-up
NewGameCardFaceUp(card, type) ==
  [id |-> card.id, points |-> card.points, uniqueId |-> 0,
   isFlipped |-> TRUE, isMatched |-> FALSE, isHighlighting |-> FALSE,
   cardType |-> type]

NewGameCard(card, type) ==
  [id |-> card.id, points |-> card.points, uniqueId |-> 0,
   isFlipped |-> FALSE, isMatched |-> FALSE, isHighlighting |-> FALSE,
   cardType |-> type]

GamePool(selected) ==
  [k \in 1..(2 * Len(selected)) |->
     NewGameCard(selected[(k + 1) \div 2], IF k % 2 = 1 THEN "image" ELSE "text")]

\* the ids counted from 1
AssignIdsFromOne(pool) == [k \in 1..Len(pool) |-> [pool[k] EXCEPT !.uniqueId = k]]

\* line 757: .map((card, index) => ({ ...card, uniqueId: index }))
AssignIds(pool) == [k \in 1..Len(pool) |-> [pool[k] EXCEPT !.uniqueId = k - 1]]

\* r is the outcome of the random source, used by both sorts
BuildDeck(allCards, r) ==
  AssignIds(Shuffle(GamePool(Slice(Shuffle(allCards, r), PairCount)), r))

(***************************************************************************)
(* State.                                                                  *)
(***************************************************************************)
VARIABLES
  view, gameMode, currentPlayer, scores, cards, flippedCards, matches, moves,
  isWon, isAdminAuth, showPassModal, matchedCardId,
  timers,        \* pending setTimeout callbacks, in scheduling order
  pendingInits,  \* initGame calls awaiting their catalog fetch
  configured,    \* isAppwriteConfigured()
  documents,     \* the Appwrite collection
  dbCards,       \* the local cards table
  tainted        \* exploration bookkeeping: the session is no longer an undisturbed
                 \* game (its deck was installed over pending timers, or an
                 \* initGame call reset part of it)

gameVars == <<flippedCards, matches, moves, gameMode, currentPlayer, scores, isWon,
              matchedCardId, cards>>
uiVars == <<view, isAdminAuth, showPassModal>>
catalogVars == <<configured, documents, dbCards>>
vars == <<timers, pendingInits, uiVars, gameVars, tainted, catalogVars>>

NoCard == 0

\* the state of App after its first render
InitSession ==
  /\ view = "menu"
  /\ gameMode = "solo"
  /\ currentPlayer = 1
  /\ scores = [p1 |-> 0, p2 |-> 0]
  /\ cards = <<>>
  /\ flippedCards = <<>>
  /\ matches = 0
  /\ moves = 0
  /\ isWon = FALSE
  /\ isAdminAuth = FALSE
  /\ showPassModal = FALSE
  /\ matchedCardId = NoCard
  /\ timers = <<>>
  /\ pendingInits = <<>>

Init ==
  /\ InitSession
  /\ configured \in BOOLEAN
  /\ documents = IF configured THEN AppwriteCollection(7) ELSE <<>>
  /\ dbCards = IF configured THEN LocalCatalog(5) ELSE LocalCatalog(6)
  /\ tainted = FALSE

(***************************************************************************)
(* Lookups on the deck.                                                    *)
(***************************************************************************)
HasCard(deck, u) == \E k \in 1..Len(deck) : deck[k].uniqueId = u
FindIndex(deck, u) == CHOOSE k \in 1..Len(deck) : deck[k].uniqueId = u
Find(deck, u) == deck[FindIndex(deck, u)]

\* an overlay (fixed inset-0 z-50) covers the page
Overlay == showPassModal \/ (view = "game" /\ isWon)

RemoveAt(s, i) == SubSeq(s, 1, i - 1) \o SubSeq(s, i + 1, Len(s))

(***************************************************************************)
(* Where the exploration is deep and where it is shallow.                  *)
(***************************************************************************)
Plain == ~tainted /\ pendingInits = <<>> /\ ~isAdminAuth

Small ==
  /\ moves <= MaxBusyMoves
  /\ \A k \in 1..Len(cards) :
       (cards[k].isFlipped \/ cards[k].isMatched) => cards[k].uniqueId \in BusyCards

(***************************************************************************)
(* initGame, lines 700-765.  The call captures mode and isAdminAuth and    *)
(* awaits the fetch; the continuation runs later.                          *)
(***************************************************************************)
InitGameCall(mode) ==
  /\ Len(pendingInits) < MaxPendingInits
  /\ ~tainted
  /\ pendingInits # <<>> => (flippedCards = <<>> /\ timers = <<>>)
  /\ pendingInits' = Append(pendingInits, [mode |-> mode, isAdminAuth |-> isAdminAuth])
  /\ UNCHANGED <<gameVars, uiVars, timers, catalogVars, tainted>>

\* menu buttons, lines 957 and 964
StartGame(mode) ==
  /\ view = "menu"
  /\ ~Overlay
  /\ InitGameCall(mode)

\* "Reiniciar" (line 1051) and "Jogar Novamente" (line 1114): initGame()
Restart ==
  /\ view = "game"
  /\ ~showPassModal
  /\ isWon \/ Small
  /\ InitGameCall(gameMode)

\* handleAdminAccess without its test of isAdminAuth
AdminAccessUnguarded(auth) ==
  /\ view' = "admin"
  /\ UNCHANGED <<isAdminAuth, showPassModal>>

\* handleAdminAccess with the isAdminAuth its closure holds, lines 767-773
AdminAccess(auth) ==
  IF auth
  THEN /\ view' = "admin"
       /\ UNCHANGED <<isAdminAuth, showPassModal>>
  ELSE /\ showPassModal' = TRUE
       /\ UNCHANGED <<view, isAdminAuth>>

\* lines 716-720
InitGameInsufficient(call) ==
  /\ AdminAccess(call.isAdminAuth)
  /\ UNCHANGED <<gameVars, timers, catalogVars, tainted>>

\* lines 722-764
InitGameInstall(call, allCards, r) ==
  /\ (tainted \/ (isAdminAuth /\ call.mode = gameMode)) => timers = <<>>
  /\ gameMode' = call.mode
  /\ currentPlayer' = 1
  /\ scores' = [p1 |-> 0, p2 |-> 0]
  /\ cards' = BuildDeck(allCards, r)
  /\ flippedCards' = <<>>
  /\ matches' = 0
  /\ moves' = 0
  /\ isWon' = FALSE
  /\ view' = "game"
  /\ timers' = [i \in 1..Len(timers) |-> [timers[i] EXCEPT !.stale = TRUE]]
  /\ tainted' = (timers # <<>>)
  /\ UNCHANGED <<matchedCardId, isAdminAuth, showPassModal, catalogVars>>

\* the test of line 716 with a threshold one lower
InsufficientBelowFive(allCards) == Len(allCards) < PairCount - 1

\* line 716
Insufficient(allCards) == Len(allCards) < PairCount

InitGameWith(call, allCards) ==
  IF Insufficient(allCards)
  THEN InitGameInsufficient(call)
  ELSE \E r \in Rotations : InitGameInstall(call, allCards, r)

\* the fetch of lines 703-714 answered: by Appwrite, or by the local API
\* (not configured, or after Appwrite threw)
InitGameFetched ==
  /\ pendingInits # <<>>
  /\ pendingInits' = Tail(pendingInits)
  /\ \/ /\ configured
        /\ InitGameWith(Head(pendingInits), GetCards(documents))
     \/ InitGameWith(Head(pendingInits), dbCards)

\* fetch('/api/cards') or res.json() rejects: the promise of initGame rejects
InitGameFetchFailed ==
  /\ pendingInits # <<>>
  /\ pendingInits' = Tail(pendingInits)
  /\ UNCHANGED <<gameVars, uiVars, timers, catalogVars, tainted>>

\* the local API answers 500 with the object {error}: allCards.length is
\* undefined, the test of line 716 is false, lines 722-724 run and the
\* spread of line 727 throws
InitGameErrorBody ==
  /\ pendingInits # <<>>
  /\ pendingInits' = Tail(pendingInits)
  /\ gameMode' = Head(pendingInits).mode
  /\ currentPlayer' = 1
  /\ scores' = [p1 |-> 0, p2 |-> 0]
  /\ tainted' = TRUE
  /\ UNCHANGED <<cards, flippedCards, matches, moves, isWon, matchedCardId,
                 uiVars, timers, catalogVars>>

(***************************************************************************)
(* handleCardClick, lines 788-848, behind the guard of Card (line 256).    *)
(***************************************************************************)
\* the guard of Card refusing only a face-up piece that is not resolved
CardAcceptsResolved(u) ==
  /\ Len(flippedCards) # 2
  /\ ~Find(cards, u).isFlipped \/ Find(cards, u).isMatched

\* the guard of Card reduced to its test of disabled
CardAcceptsAnyPiece(u) == Len(flippedCards) # 2

\* the guard of Card without its test of isFlipped
CardAcceptsFaceUp(u) ==
  /\ Len(flippedCards) # 2
  /\ ~Find(cards, u).isMatched

\* Card: !disabled && !card.isFlipped && !card.isMatched
CardAccepts(u) ==
  /\ Len(flippedCards) # 2
  /\ ~Find(cards, u).isFlipped
  /\ ~Find(cards, u).isMatched

\* the timer a full selection schedules, with what its closure captures;
\* elapsed is the time from the flip that completed the pair to the moment
\* the callback runs
PairTimer(newFlipped) ==
  LET firstCard == Find(cards, newFlipped[1])
      secondCard == Find(cards, newFlipped[2])
      match == firstCard.id = secondCard.id
  IN [kind |-> IF match THEN "highlight" ELSE "nomatch",
      delay |-> IF match THEN HighlightDelay ELSE NoMatchDelay,
      elapsed |-> IF match THEN HighlightDelay ELSE NoMatchDelay,
      firstId |-> newFlipped[1], secondId |-> newFlipped[2],
      cardId |-> firstCard.id, points |-> firstCard.points,
      gameMode |-> gameMode, currentPlayer |-> currentPlayer,
      matches |-> matches, stale |-> FALSE]

HandleCardClick(u) ==
  /\ Len(flippedCards) # 2
  /\ LET newFlipped == Append(flippedCards, u)
     IN /\ cards' = [cards EXCEPT ![FindIndex(cards, u)].isFlipped = TRUE]
        /\ flippedCards' = newFlipped
        /\ IF Len(newFlipped) = 2
           THEN /\ moves' = moves + 1
                /\ timers' = Append(timers, PairTimer(newFlipped))
           ELSE UNCHANGED <<moves, timers>>
  /\ UNCHANGED <<gameMode, currentPlayer, scores, matches, isWon, matchedCardId,
                 uiVars, pendingInits, catalogVars, tainted>>

\* would this click complete a pair of different identities
WouldMiss(u) ==
  /\ Len(flippedCards) = 1
  /\ Find(cards, flippedCards[1]).id # Find(cards, u).id

CardClick(u) ==
  /\ view = "game"
  /\ ~Overlay
  /\ HasCard(cards, u)
  /\ IF CardAccepts(u)
     THEN /\ WouldMiss(u) => moves - matches < MaxMisses
          /\ ~Plain => u \in BusyCards
          /\ (~Plain /\ Len(flippedCards) = 1) => moves < MaxBusyMoves
          /\ HandleCardClick(u)
     ELSE UNCHANGED vars

(***************************************************************************)
(* The setTimeout callbacks.                                               *)
(***************************************************************************)
\* timers expire in the order of their deadlines: one scheduled earlier with
\* a delay that is not longer fires first
CanFire(i) ==
  /\ i \in 1..Len(timers)
  /\ \A j \in 1..(i - 1) : timers[j].delay > timers[i].delay

\* lines 808-810
Highlight(t, prev) ==
  [k \in 1..Len(prev) |->
     IF prev[k].uniqueId = t.firstId \/ prev[k].uniqueId = t.secondId
     THEN [prev[k] EXCEPT !.isHighlighting = TRUE]
     ELSE prev[k]]

\* lines 807-812 and the setTimeout of line 814
FireHighlight(i) ==
  /\ CanFire(i)
  /\ timers[i].kind = "highlight"
  /\ LET t == timers[i]
     IN /\ cards' = Highlight(t, cards)
        /\ matchedCardId' = t.cardId
        /\ timers' = Append(RemoveAt(timers, i),
                            [t EXCEPT !.kind = "matched", !.delay = MatchDelay,
                                      !.elapsed = t.elapsed + MatchDelay])
  /\ UNCHANGED <<gameMode, currentPlayer, scores, flippedCards, matches, moves, isWon,
                 uiVars, pendingInits, catalogVars, tainted>>

PointsOf(t) == IF t.points = 0 THEN DefaultPoints ELSE t.points

\* the score update without its test of currentPlayer
CreditScoreFirstBucket(t, prev) == [prev EXCEPT !.p1 = prev.p1 + PointsOf(t)]

\* lines 822-829
CreditScore(t, prev) ==
  IF t.gameMode = "solo"
  THEN [prev EXCEPT !.p1 = prev.p1 + PointsOf(t)]
  ELSE IF t.currentPlayer = 1
       THEN [prev EXCEPT !.p1 = prev.p1 + PointsOf(t)]
       ELSE [prev EXCEPT !.p2 = prev.p2 + PointsOf(t)]

\* lines 816-818
MarkMatched(t, prev) ==
  [k \in 1..Len(prev) |->
     IF prev[k].id = t.cardId
     THEN [prev[k] EXCEPT !.isMatched = TRUE, !.isHighlighting = FALSE]
     ELSE prev[k]]

\* line 832
Won(t) == t.matches + 1 = PairCount

\* lines 814-833
FireMatched(i) ==
  /\ CanFire(i)
  /\ timers[i].kind = "matched"
  /\ LET t == timers[i]
     IN /\ cards' = MarkMatched(t, cards)
        /\ matches' = matches + 1
        /\ matchedCardId' = NoCard
        /\ scores' = CreditScore(t, scores)
        /\ flippedCards' = <<>>
        /\ isWon' = IF Won(t) THEN TRUE ELSE isWon
        /\ timers' = RemoveAt(timers, i)
  /\ UNCHANGED <<gameMode, currentPlayer, moves, uiVars, pendingInits, catalogVars,
                 tainted>>

\* the flip back applied to the first piece of the pair only
FlipBackFirstOnly(t, prev) ==
  [k \in 1..Len(prev) |->
     IF prev[k].uniqueId = t.firstId
     THEN [prev[k] EXCEPT !.isFlipped = FALSE]
     ELSE prev[k]]

\* lines 838-840: newFlipped.includes(c.uniqueId)
FlipBack(t, prev) ==
  [k \in 1..Len(prev) |->
     IF prev[k].uniqueId = t.firstId \/ prev[k].uniqueId = t.secondId
     THEN [prev[k] EXCEPT !.isFlipped = FALSE]
     ELSE prev[k]]

\* the turn change without the toggle
NextPlayerKept(t, prev) == prev

\* lines 842-844
NextPlayer(t, prev) ==
  IF t.gameMode = "multiplayer" THEN (IF prev = 1 THEN 2 ELSE 1) ELSE prev

\* the no-match callback without its setFlippedCards([])
FireNoMatchKeepsSelection(i) ==
  /\ CanFire(i)
  /\ timers[i].kind = "nomatch"
  /\ LET t == timers[i]
     IN /\ cards' = FlipBack(t, cards)
        /\ currentPlayer' = NextPlayer(t, currentPlayer)
        /\ timers' = RemoveAt(timers, i)
  /\ UNCHANGED <<flippedCards, gameMode, scores, matches, moves, isWon,
                 matchedCardId, uiVars, pendingInits, catalogVars, tainted>>

\* lines 837-845
FireNoMatch(i) ==
  /\ CanFire(i)
  /\ timers[i].kind = "nomatch"
  /\ LET t == timers[i]
     IN /\ cards' = FlipBack(t, cards)
        /\ flippedCards' = <<>>
        /\ currentPlayer' = NextPlayer(t, currentPlayer)
        /\ timers' = RemoveAt(timers, i)
  /\ UNCHANGED <<gameMode, scores, matches, moves, isWon, matchedCardId,
                 uiVars, pendingInits, catalogVars, tainted>>

(***************************************************************************)
(* Navigation.                                                             *)
(***************************************************************************)
\* "Menu Principal" on the completion overlay, line 1120
ReturnToMenu ==
  /\ view = "game"
  /\ isWon
  /\ ~showPassModal
  /\ view' = "menu"
  /\ UNCHANGED <<gameVars, isAdminAuth, showPassModal, timers, pendingInits,
                 catalogVars, tainted>>

\* the settings button of the header, line 878
HandleAdminAccess ==
  /\ view # "admin"
  /\ ~Overlay
  /\ view = "game" => Small
  /\ AdminAccess(isAdminAuth)
  /\ UNCHANGED <<gameVars, timers, pendingInits, catalogVars, tainted>>

\* handleAuth, lines 775-786
HandleAuth(correct) ==
  /\ showPassModal
  /\ view # "admin"
  /\ IF correct
     THEN /\ isAdminAuth' = TRUE
          /\ view' = "admin"
          /\ showPassModal' = FALSE
     ELSE UNCHANGED uiVars
  /\ UNCHANGED <<gameVars, timers, pendingInits, catalogVars, tainted>>

\* "Cancelar", line 914
CancelPassModal ==
  /\ showPassModal
  /\ view # "admin"
  /\ showPassModal' = FALSE
  /\ UNCHANGED <<gameVars, view, isAdminAuth, timers, pendingInits, catalogVars, tainted>>

\* AdminPanel onBack, line 853
AdminBack ==
  /\ view = "admin"
  /\ view' = "menu"
  /\ UNCHANGED <<gameVars, isAdminAuth, showPassModal, timers, pendingInits,
                 catalogVars, tainted>>

UniqueIds == 0..(2 * PairCount - 1)

Next ==
  \/ \E mode \in {"solo", "multiplayer"} : StartGame(mode)
  \/ Restart
  \/ InitGameFetched
  \/ InitGameFetchFailed
  \/ InitGameErrorBody
  \/ \E u \in UniqueIds : CardClick(u)
  \/ \E i \in 1..Len(timers) : FireHighlight(i)
  \/ \E i \in 1..Len(timers) : FireMatched(i)
  \/ \E i \in 1..Len(timers) : FireNoMatch(i)
  \/ ReturnToMenu
  \/ HandleAdminAccess
  \/ \E correct \in BOOLEAN : HandleAuth(correct)
  \/ CancelPassModal
  \/ AdminBack

Spec == Init /\ [][Next]_vars

\* the same program with the guarantee of the event loop: a setTimeout
\* callback that is pending is run
SpecFair ==
  /\ Init
  /\ [][Next]_vars
  /\ WF_vars(\E i \in 1..Len(timers) : FireHighlight(i) \/ FireMatched(i) \/ FireNoMatch(i))

(***************************************************************************)
(* A second exploration of the same program: solo games on the local       *)
(* catalog, played without a mismatch to the end, also in a session whose  *)
(* deck was installed over pending timers.                                 *)
(***************************************************************************)
InitDeep == Init /\ ~configured

\* handleCardClick behind the guard of Card, for a flip that starts a pair or
\* completes a matching one
MatchingClick(u) ==
  /\ view = "game"
  /\ ~Overlay
  /\ HasCard(cards, u)
  /\ CardAccepts(u)
  /\ ~WouldMiss(u)
  /\ pendingInits # <<>> => (u \in BusyCards /\ moves < MaxBusyMoves)
  /\ HandleCardClick(u)

NextDeep ==
  \/ StartGame("solo")
  \/ Restart
  \/ InitGameFetched
  \/ \E u \in UniqueIds : MatchingClick(u)
  \/ \E i \in 1..Len(timers) : FireHighlight(i)
  \/ \E i \in 1..Len(timers) : FireMatched(i)

SpecDeep == InitDeep /\ [][NextDeep]_vars

(***************************************************************************)
(* Card management: the local API (lines 29-61), appwriteService (lines    *)
(* 137-205) and the handlers of AdminPanel and StudentUploadModal.  A       *)
(* third exploration: uploads and deletes on catalogs that start empty.    *)
(***************************************************************************)
WithoutId(rows, id) == LET Other(row) == row.id # id IN SelectSeq(rows, Other)

\* POST /api/cards: INSERT OR REPLACE INTO cards (id, image_data)
PostCard(rows, id, image) == <<NewLocalRow(id, image)>> \o WithoutId(rows, id)

\* DELETE /api/cards/:id
DeleteCardRow(rows, id) == WithoutId(rows, id)

\* appwriteService.uploadCard: createDocument under ID.unique()
UploadCard(docs, id, image, points, author) ==
  <<NewAppwriteDoc(Len(docs) + 1, id, image, points, author)>> \o docs

HasDocument(docs, docId) ==
  \E n \in 1..Len(docs) : docs[n].docId = docId /\ ~docs[n].deleted

\* appwriteService.deleteCard: deleteDocument
DeleteDocument(docs, docId) ==
  [n \in 1..Len(docs) |->
     IF docs[n].docId = docId THEN [docs[n] EXCEPT !.deleted = TRUE] ELSE docs[n]]

\* fetchCards of AdminPanel with the configured backend answering
FetchCards == IF configured THEN GetCards(documents) ELSE dbCards

\* handleUpload of AdminPanel and of StudentUploadModal: Appwrite when it is
\* configured, the local API when it is not or when Appwrite threw
HandleUpload(id, image, points, author) ==
  /\ \/ /\ configured
        /\ Len(documents) < MaxDocs
        /\ documents' = UploadCard(documents, id, image, points, author)
        /\ UNCHANGED dbCards
     \/ /\ dbCards' = PostCard(dbCards, id, image)
        /\ UNCHANGED documents
  /\ UNCHANGED <<configured, gameVars, uiVars, timers, pendingInits, tainted>>

\* AdminPanel: points from the isValuable box, author 'Admin'
AdminUpload(id, image, isValuable) ==
  /\ view = "admin"
  /\ HandleUpload(id, image, IF isValuable THEN 20 ELSE 10, "Admin")

\* StudentUploadModal: always 10 points, the author the student typed
StudentUpload(id, image) ==
  /\ view # "admin"
  /\ ~Overlay
  /\ HandleUpload(id, image, 10, "Ana")

\* the cards a list may have shown: those listed now, and those deleted or
\* replaced since the list was fetched
EverListed ==
  {[id |-> documents[n].cardId, appwriteId |-> documents[n].docId] :
     n \in 1..Len(documents)}
  \cup {[id |-> id, appwriteId |-> NoDocument] : id \in CatalogIds}

\* deleteCard, line 204: deleteDocument rejects for a document that is gone and
\* handleDelete alerts the failure (line 406); the local DELETE answers
\* success: true whatever the table holds (line 57)
DeleteSucceeds(card) ==
  (configured /\ card.appwriteId # NoDocument) =>
    HasDocument(documents, card.appwriteId)

\* handleDelete of AdminPanel; deleteDocument throws for a document that is
\* gone, and the handler reports the error
HandleDelete(card) ==
  /\ view = "admin"
  /\ IF configured /\ card.appwriteId # NoDocument
     THEN /\ documents' = IF HasDocument(documents, card.appwriteId)
                          THEN DeleteDocument(documents, card.appwriteId)
                          ELSE documents
          /\ UNCHANGED dbCards
     ELSE /\ dbCards' = DeleteCardRow(dbCards, card.id)
          /\ UNCHANGED documents
  /\ UNCHANGED <<configured, gameVars, uiVars, timers, pendingInits, tainted>>

InitCatalog ==
  /\ InitSession
  /\ configured \in BOOLEAN
  /\ documents = <<>>
  /\ dbCards = <<>>
  /\ tainted = FALSE

NextCatalog ==
  \/ HandleAdminAccess
  \/ \E correct \in BOOLEAN : HandleAuth(correct)
  \/ CancelPassModal
  \/ AdminBack
  \/ \E id \in CatalogIds, image \in Images, isValuable \in BOOLEAN :
       AdminUpload(id, image, isValuable)
  \/ \E id \in CatalogIds, image \in Images : StudentUpload(id, image)
  \/ \E card \in EverListed : HandleDelete(card)

SpecCatalog == InitCatalog /\ [][NextCatalog]_vars

(***************************************************************************)
(* Properties.                                                             *)
(***************************************************************************)
Timers == 1..Len(timers)
Pieces == 1..Len(cards)

Fires(i) == FireHighlight(i) \/ FireMatched(i) \/ FireNoMatch(i)

\* the flip Card refuses: selection full, piece face-up or piece resolved
Rejected(u) ==
  /\ view = "game"
  /\ \E k \in Pieces :
       /\ cards[k].uniqueId = u
       /\ Len(flippedCards) = 2 \/ cards[k].isFlipped \/ cards[k].isMatched

\* the step is an accepted flip, of piece u, that completes a selection
SecondFlip(u) ==
  /\ Len(flippedCards) = 1
  /\ Len(flippedCards') = 2
  /\ flippedCards'[2] = u
  /\ ~Rejected(u)
  /\ CardClick(u)

\* the callback a flip has just scheduled
Scheduled == timers'[Len(timers')]

\* the two pieces a callback was scheduled for lie face-up and unresolved
FaceUpPair(t) ==
  /\ HasCard(cards, t.firstId) /\ HasCard(cards, t.secondId)
  /\ Find(cards, t.firstId).isFlipped /\ ~Find(cards, t.firstId).isMatched
  /\ Find(cards, t.secondId).isFlipped /\ ~Find(cards, t.secondId).isMatched

FaceUpUnresolved == {k \in Pieces : cards[k].isFlipped /\ ~cards[k].isMatched}

\* C1: a resolution callback scheduled before the latest restart changes
\* nothing of the new session when it fires: deck, selection, scores,
\* matches, current player and isWon stay as they are.
C1_StaleCallbackChangesNothing ==
  [][\A i \in Timers :
       (timers[i].stale /\ Fires(i)) =>
         UNCHANGED <<cards, flippedCards, scores, matches, currentPlayer, isWon>>]_vars

\* C2: at every moment at most two pieces are face-up and unresolved.
C2_AtMostTwoFaceUp == Cardinality(FaceUpUnresolved) <= 2

\* C3: a flip on a piece while the selection holds two entries, or on a
\* piece that is face-up or resolved, changes no state and schedules no
\* timer.
C3_RejectedFlipIsNoOp ==
  [][(\E u \in UniqueIds : Rejected(u) /\ CardClick(u)) => UNCHANGED vars]_vars

\* a game with a full selection, another piece resolved, and nothing covering the board
C3_Witness ==
  /\ view = "game"
  /\ ~Overlay
  /\ Len(flippedCards) = 2
  /\ \E k \in Pieces : cards[k].isMatched
  /\ \E k \in Pieces : ~cards[k].isMatched /\ ~cards[k].isFlipped

\* C4: resolving a matching pair adds exactly 1 to matches, the flip that
\* completed the pair added exactly 1 to moves, and a pair is counted once:
\* the callback of a pair of this session never finds its pair resolved
\* already.
C4_MatchCountedOnce ==
  [][/\ \A u \in UniqueIds :
          SecondFlip(u) => moves' = moves + 1 /\ matches' = matches
     /\ \A i \in Timers :
          FireMatched(i) =>
            /\ matches' = matches + 1
            /\ moves' = moves
            /\ ~timers[i].stale =>
                 ~(Find(cards, timers[i].firstId).isMatched
                   /\ Find(cards, timers[i].secondId).isMatched)]_vars

\* the callback a completing flip schedules carries the mode, the player and
\* the matches of that moment and the identity and points of the first piece
CapturesSelection(u) ==
  /\ Scheduled.gameMode = gameMode
  /\ Scheduled.currentPlayer = currentPlayer
  /\ Scheduled.matches = matches
  /\ Scheduled.firstId = flippedCards[1]
  /\ Scheduled.secondId = u
  /\ Scheduled.cardId = Find(cards, flippedCards[1]).id
  /\ Scheduled.points = Find(cards, flippedCards[1]).points

\* C5: resolving a match adds exactly the points of the matched identity
\* (10 when it has none) to one score bucket and leaves the other alone: p1
\* when the pair was flipped in solo mode, else the bucket of the player who
\* was current when the pair was flipped.
C5_MatchCreditsOneBucket ==
  [][/\ \A u \in UniqueIds : SecondFlip(u) => CapturesSelection(u) /\ scores' = scores
     /\ \A i \in Timers : FireHighlight(i) => scores' = scores
     /\ \A i \in Timers :
          FireMatched(i) =>
            LET t == timers[i]
                pts == IF t.points = 0 THEN DefaultPoints ELSE t.points
                toFirst == t.gameMode = "solo" \/ t.currentPlayer = 1
            IN /\ pts \in {10, 20}
               /\ scores'.p1 = scores.p1 + (IF toFirst THEN pts ELSE 0)
               /\ scores'.p2 = scores.p2 + (IF toFirst THEN 0 ELSE pts)]_vars

\* a two-player game in which player 1 has 10 points and player 2 has 20
C5_Witness ==
  /\ view = "game"
  /\ gameMode = "multiplayer"
  /\ ~tainted
  /\ matches = 2
  /\ scores = [p1 |-> 10, p2 |-> 20]

\* C6: the callback of a mismatch flipped in two-player mode toggles the
\* current player exactly once (so two in a row restore it), one flipped in
\* solo mode leaves it alone, and no flip and no callback of a match changes
\* the current player.
C6_MismatchTogglesPlayer ==
  [][/\ \A i \in Timers :
          FireNoMatch(i) =>
            currentPlayer' = IF timers[i].gameMode = "multiplayer"
                             THEN 3 - currentPlayer
                             ELSE currentPlayer
     /\ \A i \in Timers :
          (FireHighlight(i) \/ FireMatched(i)) => currentPlayer' = currentPlayer
     /\ \A u \in UniqueIds :
          SecondFlip(u) => Scheduled.gameMode = gameMode
     /\ currentPlayer' # currentPlayer => \A u \in UniqueIds : ~CardClick(u)]_vars

\* a two-player game after a match and two mismatches: player 1 is current again
C6_Witness ==
  /\ view = "game"
  /\ gameMode = "multiplayer"
  /\ ~tainted
  /\ timers = <<>>
  /\ matches = 1
  /\ moves = 3
  /\ scores.p2 > 0
  /\ currentPlayer = 1

\* C7: the callback that resolves the sixth match sets isWon, and once isWon
\* is set no flip changes anything.
C7_SixthMatchCompletes ==
  [][/\ (matches = PairCount - 1 /\ matches' = PairCount) => isWon'
     /\ isWon => \A u \in UniqueIds : CardClick(u) \/ MatchingClick(u) => UNCHANGED vars]_vars

\* C8: the deck of a started game has 12 pieces of 6 distinct identities,
\* each identity on exactly one image piece and one text piece.
C8_DeckShape ==
  cards # <<>> =>
    /\ Len(cards) = 2 * PairCount
    /\ Cardinality({cards[k].id : k \in Pieces}) = PairCount
    /\ \A k \in Pieces :
         /\ Cardinality({j \in Pieces : cards[j].id = cards[k].id
                                        /\ cards[j].cardType = "image"}) = 1
         /\ Cardinality({j \in Pieces : cards[j].id = cards[k].id
                                        /\ cards[j].cardType = "text"}) = 1

\* the catalogs a fetch of initGame can return
Fetched == (IF configured THEN {GetCards(documents)} ELSE {}) \cup {dbCards}

\* the continuation of initGame runs with this catalog
Continues(allCards) ==
  /\ pendingInits # <<>>
  /\ pendingInits' = Tail(pendingInits)
  /\ InitGameWith(Head(pendingInits), allCards)

\* C9: initGame on a catalog of fewer than 6 cards builds no deck, leaves
\* mode, player, scores, deck, selection, matches, moves and isWon as they
\* are and sends the user to the catalog management; on 6 or more it
\* installs a fresh game.
C9_CatalogThreshold ==
  [][\A allCards \in Fetched :
       Continues(allCards) =>
         IF Len(allCards) < 6
         THEN /\ UNCHANGED <<gameMode, currentPlayer, scores, cards, flippedCards,
                             matches, moves, isWon>>
              /\ showPassModal' \/ view' = "admin"
         ELSE /\ view' = "game"
              /\ gameMode' = Head(pendingInits).mode
              /\ Len(cards') = 12
              /\ \A k \in 1..Len(cards') : ~cards'[k].isFlipped /\ ~cards'[k].isMatched
              /\ currentPlayer' = 1
              /\ scores' = [p1 |-> 0, p2 |-> 0]
              /\ flippedCards' = <<>>
              /\ matches' = 0 /\ moves' = 0 /\ ~isWon']_vars

\* "Jogar Novamente" after a completed game was refused: the local catalog,
\* which answered after Appwrite failed, holds fewer than 6 cards, and the
\* completed game is still in place behind the password prompt
C9_Witness ==
  /\ configured
  /\ Len(dbCards) < 6
  /\ pendingInits = <<>>
  /\ view = "game"
  /\ isWon
  /\ matches = PairCount
  /\ showPassModal

\* C10: resolving two face-up pieces of different identities turns both
\* face-down and empties the selection; the flip that completed the pair
\* added exactly 1 to moves; matches, scores and every flag of every other
\* piece stay as they are.
C10_MismatchFlipsBack ==
  [][/\ \A u \in UniqueIds :
          (SecondFlip(u) /\ WouldMiss(u)) =>
            /\ moves' = moves + 1
            /\ Scheduled.kind = "nomatch"
            /\ Scheduled.firstId = flippedCards[1] /\ Scheduled.secondId = u
     /\ \A i \in Timers :
          (timers[i].kind = "nomatch" /\ FaceUpPair(timers[i]) /\ FireNoMatch(i)) =>
            LET t == timers[i]
            IN /\ flippedCards' = <<>>
               /\ moves' = moves /\ matches' = matches /\ scores' = scores
               /\ Len(cards') = Len(cards)
               /\ \A k \in Pieces :
                    cards'[k] = IF cards[k].uniqueId \in {t.firstId, t.secondId}
                                THEN [cards[k] EXCEPT !.isFlipped = FALSE]
                                ELSE cards[k]]_vars

\* one mismatch of a game was resolved: every piece is face-down again
C10_Witness ==
  /\ view = "game"
  /\ ~tainted
  /\ moves = 1
  /\ matches = 0
  /\ timers = <<>>
  /\ flippedCards = <<>>
  /\ cards # <<>>
  /\ \A k \in Pieces : ~cards[k].isFlipped /\ ~cards[k].isMatched

\* C11: the selection never holds the same uniqueId twice: the two pieces
\* queued for a resolution are two distinct pieces, and every queued piece
\* lies face-up.
C11_SelectionHoldsDistinctPieces ==
  /\ Len(flippedCards) = 2 => flippedCards[1] # flippedCards[2]
  /\ \A n \in 1..Len(flippedCards) :
       HasCard(cards, flippedCards[n]) /\ Find(cards, flippedCards[n]).isFlipped

\* a full selection in a game whose deck was installed over a callback that
\* is still pending
C11_Witness ==
  /\ view = "game"
  /\ Len(flippedCards) = 2
  /\ Len(timers) = 2
  /\ timers[1].stale
  /\ ~timers[2].stale

\* the initGame call a handler has just issued
Requested == pendingInits'[Len(pendingInits')]

\* C12: an initGame call that finds 6 or more cards installs a freshly built
\* deck with every piece face-down, unresolved and unhighlighted, an empty
\* selection, player 1 current, both scores 0, matches 0, moves 0 and isWon
\* false, in the mode the call was made with; "Reiniciar" calls with the mode
\* of the game it is pressed in, a menu button with its own mode.
C12_InstallResetsSession ==
  [][/\ Restart => Requested.mode = gameMode
     /\ \A mode \in {"solo", "multiplayer"} : StartGame(mode) => Requested.mode = mode
     /\ \A allCards \in Fetched :
          (Len(allCards) >= 6 /\ Continues(allCards)) =>
            /\ \E r \in Rotations : cards' = BuildDeck(allCards, r)
            /\ \A k \in 1..Len(cards') :
                 /\ ~cards'[k].isFlipped
                 /\ ~cards'[k].isMatched
                 /\ ~cards'[k].isHighlighting
            /\ flippedCards' = <<>>
            /\ gameMode' = Head(pendingInits).mode
            /\ currentPlayer' = 1
            /\ scores' = [p1 |-> 0, p2 |-> 0]
            /\ matches' = 0
            /\ moves' = 0
            /\ isWon' = FALSE]_vars

\* a two-player game just installed by "Reiniciar" while a callback of the
\* game it replaces is pending
C12_Witness ==
  /\ view = "game"
  /\ gameMode = "multiplayer"
  /\ timers # <<>>
  /\ \A i \in Timers : timers[i].stale /\ timers[i].gameMode = "multiplayer"
  /\ moves = 0 /\ matches = 0 /\ ~isWon
  /\ flippedCards = <<>>
  /\ scores = [p1 |-> 0, p2 |-> 0]
  /\ currentPlayer = 1
  /\ \A k \in Pieces : ~cards[k].isFlipped /\ ~cards[k].isMatched /\ ~cards[k].isHighlighting

\* the step ends an initGame call whose fetch failed: the local fetch
\* rejected, the local API answered with its error body, or Appwrite threw
\* and the call went on with the local catalog
FetchFails ==
  /\ pendingInits # <<>>
  /\ pendingInits' = Tail(pendingInits)
  /\ \/ InitGameFetchFailed
     \/ InitGameErrorBody
     \/ configured /\ InitGameWith(Head(pendingInits), dbCards)

\* C13: an initGame call whose catalog fetch fails on the configured backend
\* starts no game and leaves mode, player, scores, deck, selection, matches,
\* moves and isWon as they are.
C13_FetchFailureChangesNothing ==
  [][FetchFails =>
       UNCHANGED <<view, gameMode, currentPlayer, scores, cards, flippedCards,
                   matches, moves, isWon>>]_vars

\* the uniqueIds of a deck and one that no deck holds
AnyIds == UniqueIds \cup {2 * PairCount}

\* a flip the session must ignore: of no piece of the deck, or of a resolved one
Invalid(u) ==
  /\ view = "game"
  /\ \A k \in Pieces : cards[k].uniqueId = u => cards[k].isMatched

Uploads(id, image, points) ==
  \E author \in {"Admin", "Ana"} : HandleUpload(id, image, points, author)

\* the list holds one card at most of each identity
OnePerIdentity(listed) ==
  \A m, n \in 1..Len(listed) : listed[m].id = listed[n].id => m = n

\* C15: an upload under an identity the catalog holds replaces the earlier
\* card: after every upload and delete the list of the configured backend
\* holds at most one card per identity, and after an upload every listed card
\* of that identity shows the image just written.
C15_LastWriteWins ==
  [][/\ OnePerIdentity(FetchCards')
     /\ \A id \in CatalogIds, image \in Images, points \in {10, 20} :
          Uploads(id, image, points) =>
            \A n \in 1..Len(FetchCards') :
              FetchCards'[n].id = id => FetchCards'[n].image = image]_vars

\* the list holds a card of this identity
Lists(listed, id) == \E n \in 1..Len(listed) : listed[n].id = id

\* C16: deleting a card that the configured backend has listed is idempotent:
\* every such delete reports success, the card's identity is absent from the
\* list afterwards, and deleting the same card once more would leave the
\* catalog as the first delete left it.
C16_DeleteIsIdempotent ==
  [][\A card \in EverListed :
       (configured <=> card.appwriteId # NoDocument) /\ HandleDelete(card) =>
         /\ DeleteSucceeds(card)
         /\ ~Lists(FetchCards', card.id)
         /\ DeleteDocument(documents', card.appwriteId) = documents'
         /\ DeleteCardRow(dbCards', card.id) = dbCards']_vars

\* the list holds this card with the point value and the author it was
\* created with, and its pair awards that point value
ListsAsCreated(listed, id, image, points, author) ==
  \E n \in 1..Len(listed) :
    /\ listed[n].id = id /\ listed[n].image = image
    /\ listed[n].points = points /\ listed[n].author = author
    /\ PointsOf(listed[n]) = points

\* C17: a card written to the configured backend with a point value and an
\* author is listed next with the same point value and author, so that a card
\* created with 20 points awards 20.
C17_PointsAndAuthorSurvive ==
  [][\A id \in CatalogIds, image \in Images, points \in {10, 20},
        author \in {"Admin", "Ana"} :
       (configured => documents' # documents)
         /\ HandleUpload(id, image, points, author) =>
           ListsAsCreated(FetchCards', id, image, points, author)]_vars

\* C18: at most one resolution sequence is pending at any time: no second
\* callback is scheduled while the callback of a full selection is
\* outstanding, whatever the order of flips, restarts and callbacks.
C18_OneResolutionPending == Len(timers) <= 1

\* C19: the catalog fetch of initGame is blocking: from the call of initGame
\* to the step that installs its deck no flip is processed and no callback
\* is scheduled.
C19_FetchBlocksFlips ==
  [][(pendingInits # <<>> /\ pendingInits' = pendingInits) =>
       /\ ~(\E u \in UniqueIds : CardClick(u))
       /\ Len(timers') <= Len(timers)]_vars

\* C20: the selection holds 0, 1 or 2 pieces in every state, and it is empty
\* right after the callback that completes a resolution, the one of a match
\* (2000 ms) as well as the one of a mismatch (1000 ms).
C20_SelectionBoundedAndCleared ==
  [][/\ Len(flippedCards) <= 2
     /\ Len(flippedCards') <= 2
     /\ flippedCards' # <<>> =>
          ~(\E i \in Timers : FireMatched(i) \/ FireNoMatch(i))]_vars

\* a match and then a mismatch have completed in a session no stale callback
\* touched, and the selection is empty
C20_Witness ==
  /\ view = "game" /\ ~tainted
  /\ matches = 1 /\ moves = 2
  /\ timers = <<>> /\ pendingInits = <<>>
  /\ flippedCards = <<>>
  /\ \A k \in Pieces : cards[k].isFlipped => cards[k].isMatched

\* the step belongs to the session it starts in: no initGame call ends in it
SameSession == pendingInits' = pendingInits

\* C21: within a session a resolved piece stays resolved and face-up: no flip
\* and no callback turns isMatched of a piece back to false or turns a
\* resolved face-up piece face-down.
C21_ResolvedStaysResolved ==
  [][SameSession =>
       \A k \in Pieces :
         cards[k].isMatched =>
           /\ cards'[k].isMatched
           /\ cards[k].isFlipped => cards'[k].isFlipped]_vars


\* C22: no piece is resolved and highlighted at once: the callback that
\* resolves a pair takes the highlight the earlier callback gave it, and no
\* highlight is given to a resolved piece.
C22_NeverResolvedAndHighlighted ==
  \A k \in Pieces : ~(cards[k].isMatched /\ cards[k].isHighlighting)


\* C23: the callback that highlights a matching pair runs 600 ms after the
\* flip that completed the pair and the callback that resolves it 2000 ms
\* after that same flip; the callback of a mismatch runs 1000 ms after the
\* second flip.
C23_SettleTimes ==
  [][\A i \in Timers :
       /\ FireHighlight(i) => timers[i].elapsed = 600
       /\ FireMatched(i) => timers[i].elapsed = 2000
       /\ FireNoMatch(i) => timers[i].elapsed = 1000]_vars


\* the uniqueIds of a deck are 0..11 and each piece lies at the position of
\* its uniqueId
IdsArePositions(deck) ==
  /\ Len(deck) = 2 * PairCount
  /\ \A k \in 1..Len(deck) : deck[k].uniqueId = k - 1

\* C24: every deck initGame installs has the uniqueIds 0..11, each piece at
\* the position of its uniqueId, and within a session no flip and no callback
\* changes the uniqueId, the identity, the cardType or the position of a
\* piece.
C24_StableInstanceIds ==
  [][/\ cards' # <<>> => IdsArePositions(cards')
     /\ (SameSession /\ cards' # cards) =>
          /\ Len(cards') = Len(cards)
          /\ \A k \in Pieces :
               /\ cards'[k].uniqueId = cards[k].uniqueId
               /\ cards'[k].id = cards[k].id
               /\ cards'[k].cardType = cards[k].cardType]_vars

\* a deck with a resolved pair and one piece selected after a mismatch
C24_Witness ==
  /\ view = "game"
  /\ IdsArePositions(cards)
  /\ matches = 1 /\ moves = 2
  /\ Len(flippedCards) = 1
  /\ \E k \in Pieces : cards[k].isMatched


\* C25: in a solo game player 1 is the current player and the score of
\* player 2 is 0 in every state.
C25_SoloKeepsPlayerOne ==
  (view = "game" /\ gameMode = "solo") => (currentPlayer = 1 /\ scores.p2 = 0)


\* C26: isWon is set only in a state in which matches is 6 and all 12 pieces
\* of the deck are resolved, also after a restart.
C26_WonMeansAllResolved ==
  isWon => (matches = PairCount /\ \A k \in Pieces : cards[k].isMatched)


\* the uniqueIds the selection holds
Selected == {flippedCards[n] : n \in 1..Len(flippedCards)}

\* C27: in every state of a game, also after a restart, the pieces that lie
\* face-up and unresolved are exactly the pieces of the selection.
C27_FaceUpIsSelection ==
  view = "game" => {cards[k].uniqueId : k \in FaceUpUnresolved} = Selected


\* the identities with a resolved piece in the deck
ResolvedIds == {cards[k].id : k \in {j \in Pieces : cards[j].isMatched}}

\* a piece of this identity
PieceOf(id) == CHOOSE k \in Pieces : cards[k].id = id

\* the points the identities award together, 10 for one without points
RECURSIVE SumPoints(_)
SumPoints(ids) ==
  IF ids = {} THEN 0
  ELSE LET id == CHOOSE x \in ids : TRUE
       IN PointsOf(cards[PieceOf(id)]) + SumPoints(ids \ {id})

\* C28: in every state of a game the two scores add up to the points of the
\* identities whose pieces are resolved in the deck, an identity without
\* points counting 10.
C28_ScoresMatchResolved ==
  view = "game" => scores.p1 + scores.p2 = SumPoints(ResolvedIds)


\* the resolved pieces of the deck
Resolved == {k \in Pieces : cards[k].isMatched}

\* C29: in every state of a game the deck holds exactly 2 * matches resolved
\* pieces, every resolved piece has a resolved partner of its identity and of
\* the other cardType, and matches lies in 0..6.
C29_ResolvedInPairs ==
  view = "game" =>
    /\ matches \in 0..PairCount
    /\ Cardinality(Resolved) = 2 * matches
    /\ \A k \in Resolved :
         \E j \in Resolved :
           cards[j].id = cards[k].id /\ cards[j].cardType # cards[k].cardType


\* a session no restart has touched: no initGame call is waiting and no
\* callback of an earlier deck is pending or has fired
Undisturbed == ~tainted /\ pendingInits = <<>> /\ \A i \in Timers : ~timers[i].stale

\* C30: with every pending callback eventually run, a full selection is
\* eventually emptied, and a game without a restart that is not won has a
\* piece left to flip whenever its selection is empty.
C30_NeverStuck ==
  /\ (Len(flippedCards) = 2) ~> (flippedCards = <<>>)
  /\ []((view = "game" /\ Undisturbed /\ ~isWon /\ flippedCards = <<>>) =>
          \E k \in Pieces : ~cards[k].isFlipped /\ ~cards[k].isMatched)


\* C31: the admin view is shown only after the password was entered
\* correctly: every step that ends in the admin view ends with isAdminAuth
\* set, isAdminAuth is set by handleAuth with the correct password only and is
\* never taken back, and an initGame call that finds fewer than 6 cards opens
\* the admin view for a logged-in administrator and the password prompt for
\* anybody else.
C31_AdminViewNeedsPassword ==
  [][/\ view' = "admin" => isAdminAuth'
     /\ isAdminAuth => isAdminAuth'
     /\ (isAdminAuth' /\ ~isAdminAuth) => HandleAuth(TRUE)
     /\ \A allCards \in Fetched :
          (Len(allCards) < PairCount /\ Continues(allCards)) =>
            IF isAdminAuth
            THEN view' = "admin" \/ ~Head(pendingInits).isAdminAuth
            ELSE view' = view /\ showPassModal']_vars

\* the admin view shown to a logged-in administrator while a two-player game
\* is in place, on a backend whose local catalog holds fewer than 6 cards
C31_Witness ==
  /\ view = "admin"
  /\ isAdminAuth
  /\ configured
  /\ Len(dbCards) < PairCount
  /\ pendingInits = <<>>
  /\ gameMode = "multiplayer"
  /\ cards # <<>>

====
